---- MODULE Spec2Model ----
(***************************************************************************)
(* Model of chemicaltoolbox/sucos/sucos_max.py: process() reads the        *)
(* cluster SD files, then scores every molecule of the input SD file       *)
(* against every hit of every cluster and writes the molecules that        *)
(* overlay, annotated with the best ('max') or summed ('cum') scores.      *)
(***************************************************************************)
EXTENDS Integers, Sequences, FiniteSets, TLC

\* ------------------------------------------------------------------ bounds
\* total number of SD records over the cluster files
MaxClusterRecords == 2
\* number of SD records of the input file
MaxInputRecords == 2

\* ------------------------------------------------------- the input domain
\* os.sep
Sep == "/"
\* cluster file names, as sequences of characters
P1 == <<"d", "/", "a">>
P2 == <<"b">>
Paths == {P1, P2}
\* the lists of cluster file names given on the command line
ClusterLists == {<<>>, <<P1>>, <<P2>>, <<P1, P2>>, <<P2, P1>>, <<P1, P1>>}

\* A record the SD supplier yields: None (the record did not parse) or a
\* molecule.  Molecule "X" is one sucos.getRawFeatures() fails on.
None == "None"
ClusterRecords == {None, "X", "h1", "h2"}
InputRecords == {None, "X", "m1", "m2"}
Modes == {"max", "cum", "bad"}

\* cluster_name / cluster_index before their first assignment
Unbound == "unbound"

Range(s) == {s[k] : k \in DOMAIN s}

\* sucos.getRawFeatures(mol) raises for a molecule without usable features
getRawFeaturesFails(mol) == mol = "X"
getRawFeatures(mol) == <<"features", mol>>

\* sucos.get_SucosScore(hit, mol, ...): (sucos_score, fm_score, vol_score),
\* scores scaled to integers.
get_SucosScore(hit, mol) ==
    CASE hit = "h1" /\ mol = "m1" -> <<1, 2, 0>>
      [] hit = "h2" /\ mol = "m1" -> <<2, 1, 3>>
      [] hit = "h1" /\ mol = "m2" -> <<1, 1, 1>>
      [] OTHER                    -> <<0, 0, 0>>

\* ---------------------------------------------------------------- helpers
\* str.split(sep): the components of s between the separators
RECURSIVE split(_, _)
split(s, sep) ==
    IF \A k \in DOMAIN s : s[k] # sep
    THEN <<s>>
    ELSE LET p == CHOOSE k \in DOMAIN s :
                      s[k] = sep /\ \A j \in 1..(k - 1) : s[j] # sep
         IN <<SubSeq(s, 1, p - 1)>> \o split(SubSeq(s, p + 1, Len(s)), sep)

\* variant: the first path component instead of the last
FileNameOnly_first(cluster_name) == split(cluster_name, Sep)[1]

\* cluster_name.split(os.sep)[-1]
FileNameOnly(cluster_name) ==
    LET parts == split(cluster_name, Sep) IN parts[Len(parts)]

VARIABLES
    mode, clusterfilenames, files, input,   \* the arguments and the files
    pc,                                     \* position in process()
    fi, i, cluster, all_clusters, keys,     \* cluster loading
    mol_num, comparisons, scores,           \* scoring
    kpos, index, cluster_name, cluster_index,
    output                                  \* what the SD writer wrote

vars == <<mode, clusterfilenames, files, input, pc, fi, i, cluster,
          all_clusters, keys, mol_num, comparisons, scores, kpos, index,
          cluster_name, cluster_index, output>>

args == <<mode, clusterfilenames, files, input>>
loading == <<fi, i, cluster, all_clusters, keys>>
scoring == <<mol_num, comparisons, scores, kpos, index, cluster_name,
             cluster_index>>

Init ==
    /\ mode \in Modes
    /\ clusterfilenames \in ClusterLists
    /\ \E la \in 0..MaxClusterRecords, lb \in 0..MaxClusterRecords,
          li \in 0..MaxInputRecords :
          /\ la + lb <= MaxClusterRecords
          \* a file that is not named is never opened
          /\ P1 \notin Range(clusterfilenames) => la = 0
          /\ P2 \notin Range(clusterfilenames) => lb = 0
          /\ \E fa \in [1..la -> ClusterRecords],
                fb \in [1..lb -> ClusterRecords] :
                    files = [p \in Paths |-> IF p = P1 THEN fa ELSE fb]
          /\ input \in [1..li -> InputRecords]
    /\ pc = "clusters"
    /\ fi = 0
    /\ i = 0
    /\ cluster = <<>>
    /\ all_clusters = <<>>
    /\ keys = <<>>
    /\ mol_num = 0
    /\ comparisons = 0
    /\ scores = <<0, 0, 0>>
    /\ kpos = 0
    /\ index = 0
    /\ cluster_name = Unbound
    /\ cluster_index = Unbound
    /\ output = <<>>

\* ------------------------------------------------ loading the cluster files
filename == clusterfilenames[fi]

\* for filename in clusterfilenames: cluster = []; open; i = 0
OpenCluster ==
    /\ pc = "clusters"
    /\ fi < Len(clusterfilenames)
    /\ fi' = fi + 1
    /\ cluster' = <<>>
    /\ i' = 0
    /\ pc' = "cluster_records"
    /\ UNCHANGED <<args, all_clusters, keys, scoring, output>>

\* variant: a record that does not parse ends the reading of the file
ClusterRecordMalformed_break ==
    /\ pc = "cluster_records"
    /\ i < Len(files[filename])
    /\ files[filename][i + 1] = None
    /\ i' = Len(files[filename])
    /\ UNCHANGED <<args, pc, fi, cluster, all_clusters, keys, scoring, output>>

\* if not mol: log; continue
ClusterRecordMalformed ==
    /\ pc = "cluster_records"
    /\ i < Len(files[filename])
    /\ files[filename][i + 1] = None
    /\ i' = i + 1
    /\ UNCHANGED <<args, pc, fi, cluster, all_clusters, keys, scoring, output>>

\* getRawFeatures raised: log (the bare except), next record
ClusterRecordNoFeatures ==
    /\ pc = "cluster_records"
    /\ i < Len(files[filename])
    /\ files[filename][i + 1] # None
    /\ getRawFeaturesFails(files[filename][i + 1])
    /\ i' = i + 1
    /\ UNCHANGED <<args, pc, fi, cluster, all_clusters, keys, scoring, output>>

\* cluster.append((mol, features))
ClusterRecordAppend ==
    /\ pc = "cluster_records"
    /\ i < Len(files[filename])
    /\ LET mol == files[filename][i + 1] IN
          /\ mol # None
          /\ ~getRawFeaturesFails(mol)
          /\ cluster' = Append(cluster, <<mol, getRawFeatures(mol)>>)
    /\ i' = i + 1
    /\ UNCHANGED <<args, pc, fi, all_clusters, keys, scoring, output>>

\* cluster_file.close(); all_clusters[filename] = cluster
CloseCluster ==
    /\ pc = "cluster_records"
    /\ i = Len(files[filename])
    /\ all_clusters' = [p \in DOMAIN all_clusters \cup {filename} |->
                            IF p = filename THEN cluster ELSE all_clusters[p]]
    /\ keys' = IF filename \in DOMAIN all_clusters THEN keys
               ELSE Append(keys, filename)
    /\ pc' = "clusters"
    /\ UNCHANGED <<args, fi, i, cluster, scoring, output>>

\* open the input and the writer; comparisons = 0; mol_num = 0
OpenInput ==
    /\ pc = "clusters"
    /\ fi = Len(clusterfilenames)
    /\ comparisons' = 0
    /\ mol_num' = 0
    /\ pc' = "input"
    /\ UNCHANGED <<args, loading, scores, kpos, index, cluster_name,
                   cluster_index, output>>

\* ------------------------------------------------------ the input molecules
\* if not mol: log; continue
InputRecordMalformed ==
    /\ pc = "input"
    /\ mol_num < Len(input)
    /\ input[mol_num + 1] = None
    /\ mol_num' = mol_num + 1
    /\ UNCHANGED <<args, loading, pc, comparisons, scores, kpos, index,
                   cluster_name, cluster_index, output>>

\* getRawFeatures raised: log; continue
InputRecordNoFeatures ==
    /\ pc = "input"
    /\ mol_num < Len(input)
    /\ input[mol_num + 1] # None
    /\ getRawFeaturesFails(input[mol_num + 1])
    /\ mol_num' = mol_num + 1
    /\ UNCHANGED <<args, loading, pc, comparisons, scores, kpos, index,
                   cluster_name, cluster_index, output>>

\* scores = [0, 0, 0]; for clusterfilename in all_clusters
StartScoring ==
    /\ pc = "input"
    /\ mol_num < Len(input)
    /\ input[mol_num + 1] # None
    /\ ~getRawFeaturesFails(input[mol_num + 1])
    /\ mol_num' = mol_num + 1
    /\ scores' = <<0, 0, 0>>
    /\ kpos' = 0
    /\ pc' = "score_clusters"
    /\ UNCHANGED <<args, loading, comparisons, index, cluster_name,
                   cluster_index, output>>

mol == input[mol_num]
clusterfilename == keys[kpos]

\* cluster = all_clusters[clusterfilename]; index = 0
NextCluster ==
    /\ pc = "score_clusters"
    /\ kpos < Len(keys)
    /\ kpos' = kpos + 1
    /\ index' = 0
    /\ pc' = "score_hits"
    /\ UNCHANGED <<args, loading, mol_num, comparisons, scores, cluster_name,
                   cluster_index, output>>

\* the entry the inner loop is about to compare
entry == all_clusters[clusterfilename][index + 1]
score == get_SucosScore(entry[1], mol)

\* variant: each of the three scores keeps its own maximum
CompareMax_independent ==
    /\ pc = "score_hits"
    /\ index < Len(all_clusters[clusterfilename])
    /\ mode = "max"
    /\ index' = index + 1
    /\ comparisons' = comparisons + 1
    /\ IF score[1] > scores[1]
       THEN /\ scores' = <<score[1],
                           IF score[2] > scores[2] THEN score[2] ELSE scores[2],
                           IF score[3] > scores[3] THEN score[3] ELSE scores[3]>>
            /\ cluster_name' = clusterfilename
            /\ cluster_index' = index'
       ELSE UNCHANGED <<scores, cluster_name, cluster_index>>
    /\ UNCHANGED <<args, loading, pc, mol_num, kpos, output>>

\* mode == 'max': a strictly better hit replaces all three scores
CompareMax ==
    /\ pc = "score_hits"
    /\ index < Len(all_clusters[clusterfilename])
    /\ mode = "max"
    /\ index' = index + 1
    /\ comparisons' = comparisons + 1
    /\ IF score[1] > scores[1]
       THEN /\ scores' = score
            /\ cluster_name' = clusterfilename
            /\ cluster_index' = index'
       ELSE UNCHANGED <<scores, cluster_name, cluster_index>>
    /\ UNCHANGED <<args, loading, pc, mol_num, kpos, output>>

\* mode == 'cum': the three scores are summed
CompareCum ==
    /\ pc = "score_hits"
    /\ index < Len(all_clusters[clusterfilename])
    /\ mode = "cum"
    /\ index' = index + 1
    /\ comparisons' = comparisons + 1
    /\ scores' = <<scores[1] + score[1], scores[2] + score[2],
                   scores[3] + score[3]>>
    /\ UNCHANGED <<args, loading, pc, mol_num, kpos, cluster_name,
                   cluster_index, output>>

\* else: raise ValueError("Invalid mode: " + mode)
CompareInvalidMode ==
    /\ pc = "score_hits"
    /\ index < Len(all_clusters[clusterfilename])
    /\ mode \notin {"max", "cum"}
    /\ index' = index + 1
    /\ comparisons' = comparisons + 1
    /\ pc' = "ValueError"
    /\ UNCHANGED <<args, loading, mol_num, scores, kpos, cluster_name,
                   cluster_index, output>>

\* the hits of this cluster are exhausted
EndCluster ==
    /\ pc = "score_hits"
    /\ index = Len(all_clusters[clusterfilename])
    /\ pc' = "score_clusters"
    /\ UNCHANGED <<args, loading, scoring, output>>

\* variant: the molecule is written whatever its score
WriteMolecule_always ==
    /\ pc = "score_clusters"
    /\ kpos = Len(keys)
    /\ IF mode = "max"
       THEN IF cluster_name = Unbound
            THEN /\ pc' = "UnboundLocalError"
                 /\ UNCHANGED output
            ELSE /\ output' = Append(output,
                     [num |-> mol_num, mol |-> mol,
                      Max_SuCOS_Score |-> scores[1],
                      Max_SuCOS_FeatureMap_Score |-> scores[2],
                      Max_SuCOS_Protrude_Score |-> scores[3],
                      Max_SuCOS_Cluster |-> FileNameOnly(cluster_name),
                      Max_SuCOS_Index |-> cluster_index])
                 /\ pc' = "input"
       ELSE /\ output' = Append(output,
                     [num |-> mol_num, mol |-> mol,
                      Cum_SuCOS_Score |-> scores[1],
                      Cum_SuCOS_FeatureMap_Score |-> scores[2],
                      Cum_SuCOS_Protrude_Score |-> scores[3]])
            /\ pc' = "input"
    /\ UNCHANGED <<args, loading, scoring>>

\* if scores[0] > 0: set the properties and writer.write(mol)
WriteMolecule ==
    /\ pc = "score_clusters"
    /\ kpos = Len(keys)
    /\ scores[1] > 0
    /\ IF mode = "max"
       THEN IF cluster_name = Unbound
            THEN /\ pc' = "UnboundLocalError"
                 /\ UNCHANGED output
            ELSE /\ output' = Append(output,
                     [num |-> mol_num, mol |-> mol,
                      Max_SuCOS_Score |-> scores[1],
                      Max_SuCOS_FeatureMap_Score |-> scores[2],
                      Max_SuCOS_Protrude_Score |-> scores[3],
                      Max_SuCOS_Cluster |-> FileNameOnly(cluster_name),
                      Max_SuCOS_Index |-> cluster_index])
                 /\ pc' = "input"
       ELSE /\ output' = Append(output,
                     [num |-> mol_num, mol |-> mol,
                      Cum_SuCOS_Score |-> scores[1],
                      Cum_SuCOS_FeatureMap_Score |-> scores[2],
                      Cum_SuCOS_Protrude_Score |-> scores[3]])
            /\ pc' = "input"
    /\ UNCHANGED <<args, loading, scoring>>

\* else: log "did not overlay. Omitting from results"
OmitMolecule ==
    /\ pc = "score_clusters"
    /\ kpos = Len(keys)
    /\ ~(scores[1] > 0)
    /\ pc' = "input"
    /\ UNCHANGED <<args, loading, scoring, output>>

\* input_file.close(); writer.flush(); writer.close(); output_file.close()
Finish ==
    /\ pc = "input"
    /\ mol_num = Len(input)
    /\ pc' = "done"
    /\ UNCHANGED <<args, loading, scoring, output>>

Next ==
    \/ OpenCluster
    \/ ClusterRecordMalformed
    \/ ClusterRecordNoFeatures
    \/ ClusterRecordAppend
    \/ CloseCluster
    \/ OpenInput
    \/ InputRecordMalformed
    \/ InputRecordNoFeatures
    \/ StartScoring
    \/ NextCluster
    \/ CompareMax
    \/ CompareCum
    \/ CompareInvalidMode
    \/ EndCluster
    \/ WriteMolecule
    \/ OmitMolecule
    \/ Finish

Spec == Init /\ [][Next]_vars

\* ===================================================== reference notions
\* Stated over the files as given, independently of the loops above.
ValidMode == mode \in {"max", "cum"}
IsMol(rec) == rec # None /\ ~getRawFeaturesFails(rec)
Usable(f) == SelectSeq(f, IsMol)
NamedFiles == Range(clusterfilenames)
\* a usable hit: <<cluster file, position among the usable records>>
AllHits == UNION {{<<p, k>> : k \in DOMAIN Usable(files[p])} : p \in NamedFiles}
HitScore(h, m) == get_SucosScore(Usable(files[h[1]])[h[2]], m)
SetMax(S) == CHOOSE x \in S : \A y \in S : y <= x
BestScore(m) == SetMax({HitScore(h, m)[1] : h \in AllHits} \cup {0})
RECURSIVE SumScore(_, _)
SumScore(H, m) ==
    IF H = {} THEN 0
    ELSE LET h == CHOOSE x \in H : TRUE
         IN HitScore(h, m)[1] + SumScore(H \ {h}, m)
Aggregated(m) == IF mode = "max" THEN BestScore(m) ELSE SumScore(AllHits, m)
Written(k) == \E j \in DOMAIN output : output[j].num = k

\* name is the part of path after its last separator
IsLastComponent(name, path) ==
    /\ Sep \notin Range(name)
    /\ Len(name) <= Len(path)
    /\ SubSeq(path, Len(path) - Len(name) + 1, Len(path)) = name
    /\ Len(name) < Len(path) => path[Len(path) - Len(name)] = Sep

\* the cluster files in the order of their first mention
RECURSIVE Distinct(_)
Distinct(s) ==
    IF s = <<>> THEN <<>>
    ELSE LET d == Distinct(SubSeq(s, 1, Len(s) - 1))
         IN IF s[Len(s)] \in Range(d) THEN d ELSE Append(d, s[Len(s)])
RECURSIVE Concat(_)
Concat(names) ==
    IF names = <<>> THEN <<>>
    ELSE files[names[1]] \o Concat(Tail(names))
\* every record of every cluster file, skipped ones included
AllRecords == Concat(Distinct(clusterfilenames))
\* the score of a record, a skipped record scoring nothing
RecordScore(rec, m) == IF IsMol(rec) THEN get_SucosScore(rec, m) ELSE <<0, 0, 0>>
RECURSIVE Fold(_, _, _)
Fold(recs, m, acc) ==
    IF recs = <<>> THEN acc
    ELSE LET s == RecordScore(recs[1], m)
             next == IF mode = "max"
                     THEN (IF s[1] > acc[1] THEN s ELSE acc)
                     ELSE <<acc[1] + s[1], acc[2] + s[2], acc[3] + s[3]>>
         IN Fold(Tail(recs), m, next)
RECURSIVE Expected(_)
Expected(k) ==
    IF k = 0 THEN <<>>
    ELSE LET t == Fold(AllRecords, input[k], <<0, 0, 0>>)
         IN IF IsMol(input[k]) /\ t[1] > 0
            THEN Append(Expected(k - 1), <<k, input[k], t>>)
            ELSE Expected(k - 1)
Reported(r) ==
    IF mode = "max"
    THEN <<r.Max_SuCOS_Score, r.Max_SuCOS_FeatureMap_Score,
           r.Max_SuCOS_Protrude_Score>>
    ELSE <<r.Cum_SuCOS_Score, r.Cum_SuCOS_FeatureMap_Score,
           r.Cum_SuCOS_Protrude_Score>>
Projection == [j \in DOMAIN output |->
                  <<output[j].num, output[j].mol, Reported(output[j])>>]

\* ================================================================ claims

\* C1: in mode 'max' or 'cum', once process() has finished, a well-formed
\* input molecule has been written exactly when its aggregated SuCOS score
\* (the maximum, or the sum, over all usable hits of all clusters) is
\* greater than 0; with no usable hit the aggregate is 0 and it is omitted.
C1_WrittenIffPositive ==
    (pc = "done" /\ ValidMode) =>
        \A k \in DOMAIN input :
            IsMol(input[k]) => (Written(k) <=> Aggregated(input[k]) > 0)

\* C1 witness: a finished 'cum' run that wrote one well-formed molecule and
\* omitted another one, which was compared to a hit and scored nothing.
C1_Witness ==
    /\ pc = "done"
    /\ mode = "cum"
    /\ AllHits # {}
    /\ \E k \in DOMAIN input : IsMol(input[k]) /\ Written(k)
    /\ \E k \in DOMAIN input : IsMol(input[k]) /\ ~Written(k)

\* C2: in mode 'max', every written molecule carries as Max_SuCOS_Score the
\* maximum SuCOS score over all usable hits of all clusters, and its three
\* scores are the three scores of one single hit.
C2_MaxOfOneHit ==
    mode = "max" =>
        \A j \in DOMAIN output :
            /\ output[j].Max_SuCOS_Score = BestScore(output[j].mol)
            /\ \E h \in AllHits : HitScore(h, output[j].mol) = Reported(output[j])

\* C2 witness: a written molecule whose feature-map score is lower than the
\* feature-map score of another hit, so the independent maxima would differ.
C2_Witness ==
    /\ mode = "max"
    /\ \E j \in DOMAIN output : \E h \in AllHits :
          HitScore(h, output[j].mol)[2] > output[j].Max_SuCOS_FeatureMap_Score

\* C3: in mode 'max', Max_SuCOS_Index of a written molecule is the 1-based
\* position, among all records of the cluster file, of the hit whose scores
\* are reported.
C3_IndexIsFilePosition ==
    mode = "max" =>
        \A j \in DOMAIN output :
            \E p \in NamedFiles :
                /\ IsLastComponent(output[j].Max_SuCOS_Cluster, p)
                /\ output[j].Max_SuCOS_Index \in DOMAIN files[p]
                /\ IsMol(files[p][output[j].Max_SuCOS_Index])
                /\ get_SucosScore(files[p][output[j].Max_SuCOS_Index],
                                  output[j].mol) = Reported(output[j])

\* C4: in mode 'max', Max_SuCOS_Cluster of a written molecule is the last
\* path component of a cluster file that holds, at Max_SuCOS_Index among its
\* usable hits, a hit with the reported scores; and while a molecule is being
\* scored, a positive best score comes with a cluster name and index that
\* name a hit already compared to this molecule and scoring exactly that.
C4_ClusterOfReportedHit ==
    mode = "max" =>
        /\ \A j \in DOMAIN output :
              \E h \in AllHits :
                  /\ IsLastComponent(output[j].Max_SuCOS_Cluster, h[1])
                  /\ output[j].Max_SuCOS_Index = h[2]
                  /\ HitScore(h, output[j].mol) = Reported(output[j])
        /\ (pc \in {"score_clusters", "score_hits"} /\ scores[1] > 0) =>
              /\ \E q \in 1..kpos :
                    /\ keys[q] = cluster_name
                    /\ q = kpos /\ pc = "score_hits" => cluster_index <= index
              /\ <<cluster_name, cluster_index>> \in AllHits
              /\ HitScore(<<cluster_name, cluster_index>>, mol) = scores

\* C4 witness: two molecules were written, the second with a best hit in
\* another cluster file than the first.
C4_Witness ==
    /\ mode = "max"
    /\ Len(output) = 2
    /\ output[1].Max_SuCOS_Cluster # output[2].Max_SuCOS_Cluster
    /\ output[2].Max_SuCOS_Cluster = <<"a">>

\* C5: a call of process() with a mode other than 'max' or 'cum' never
\* finishes normally.
C5_UnknownModeRaises == ~ValidMode => pc # "done"

\* C6: a record that did not parse or has no features is skipped and the
\* rest is processed: a finished run has written exactly the molecules, with
\* the scores, that result when every record of every cluster file is
\* compared and a skipped record scores nothing, has written no skipped input
\* record, and has compared usable molecules to usable hits only.
C6_SkippedScoresNothing ==
    /\ (pc = "done" /\ ValidMode) =>
          /\ Projection = Expected(Len(input))
          /\ comparisons = Len(Usable(input)) * Cardinality(AllHits)
    /\ \A j \in DOMAIN output : IsMol(input[output[j].num])
    /\ ~ValidMode => output = <<>>

\* C6 witness: a finished run in which a cluster file has a skipped record
\* before a usable hit, the input has a skipped record before a molecule,
\* and that molecule was written.
C6_Witness ==
    /\ pc = "done"
    /\ ValidMode
    /\ \E p \in NamedFiles : \E a, b \in DOMAIN files[p] :
          a < b /\ ~IsMol(files[p][a]) /\ IsMol(files[p][b])
    /\ \E a, b \in DOMAIN input :
          a < b /\ ~IsMol(input[a]) /\ Written(b)

====
